---- MODULE Spec2Model ----
(***************************************************************************)
(* The row-based texture-atlas allocator CRowAtlasAlloc                    *)
(* (rts/Rendering/Textures/RowAtlasAlloc.cpp) as a state machine.          *)
(*                                                                         *)
(* An Allocate() pass is a sequence of steps: the height normalisation and *)
(* the estimator's set-up, one step per iteration of the estimator's       *)
(* growth loop, the sort, one step per texture of the placement loop (with *)
(* one step per iteration of AddRow's growth loop when FindRow has to open *)
(* a row), and the final height clamp.  pc is the position inside the      *)
(* pass; "idle" is outside Allocate().                                     *)
(*                                                                         *)
(* Entry names are the integers 1..3: they stand for three distinct        *)
(* std::string keys whose lexicographic order is the numeric order.        *)
(***************************************************************************)
EXTENDS Integers, Sequences, FiniteSets, TLC

\* ---------------------------------------------------------------- bounds
\* entries have width and height in 1..MaxDim
MaxDim == 2
\* the sides of the configured maximum surface size are chosen around MaxSide
MaxSide == 4
\* Allocate() is called at most MaxPasses times on one instance
MaxPasses == 2

\* the keys of the registry
Names == {1, 2, 3}
\* sides of the configured maximum surface size: the smallest one, powers of
\* two and a side that is none
MaxSides == {1, MaxSide - 1, MaxSide, 2 * MaxSide}
\* the initial surface is a square of one of these sides, cut to the maximum
InitSides == {1, 2}
\* the configured number of mip levels (IAtlasAllocator::numLevels)
Levels == {0, 1}

\* ------------------------------------------------------- program constants
\* 1.2f, the estimator's slack factor, is the binary32 number
\* Float12 * 2^-23
Float12 == 10066330
\* the weight of the last mantissa bit of a binary32 number in [1, 2)
MantissaUnit == 2^23
\* the mantissa of 1.2f is multiplied in two halves of 12 bits
FloatSplit == 2^12
\* FindRow's initial bestRatio, 10000.0f
BestRatioInit == 10000

VARIABLES
    atlasSize,      \* int2 atlasSize: the current surface size
    maxsize,        \* int2 maxsize: the configured maximum
    numLevels,      \* int numLevels
    nextRowPos,     \* int nextRowPos
    imageRows,      \* std::vector<Row>: records position, height, width
    entries,        \* the registry: name -> [size, texCoords]
    pc,             \* position inside Allocate()
    success,        \* Allocate's local bool success
    spaceNeeded,    \* EstimateNeededSize's local
    spaceFree,      \* EstimateNeededSize's local
    memtextures,    \* Allocate's sorted vector (names stand for the pointers)
    cur,            \* index of curtex in memtextures
    padding,        \* Allocate's local int padding
    wantedRowHeight,\* AddRow's local
    ret,            \* what the last Allocate() returned: "true", "false";
                    \* "none" before the first return
    passes,         \* number of Allocate() calls so far
    placed,         \* names that obtained a row in the latest pass
    failed,         \* names whose row request failed in the latest pass
    everPlaced,     \* names that obtained a row in some pass since they
                    \* were registered
    initSize,       \* the size the instance was constructed with
    prev            \* outcome of the previous instance's pass (reload check)

vars == <<atlasSize, maxsize, numLevels, nextRowPos, imageRows, entries, pc,
          success, spaceNeeded, spaceFree, memtextures, cur, padding,
          wantedRowHeight, ret, passes, placed, failed, everPlaced,
          initSize, prev>>

\* the configuration, fixed at construction
config == <<maxsize, numLevels, initSize>>
\* the locals of a pass that are dead outside it
passLocals == <<success, spaceNeeded, spaceFree, memtextures, cur,
                wantedRowHeight>>

\* ------------------------------------------------------------- arithmetic
Min(a, b) == IF a < b THEN a ELSE b

RECURSIVE Pow2(_)
Pow2(n) == IF n = 0 THEN 1 ELSE 2 * Pow2(n - 1)

\* std::bit_ceil<uint32_t>: the smallest power of two >= n (1 for n = 0)
RECURSIVE BitCeilFrom(_, _)
BitCeilFrom(p, n) == IF p >= n THEN p ELSE BitCeilFrom(2 * p, n)
\* BitCeil left out: the height is taken as it is
BitCeilSkipped(n) == n
BitCeil(n) == BitCeilFrom(1, n)

\* std::bit_width: the number of bits needed to write n (0 for n = 0)
RECURSIVE BitWidth(_)
BitWidth(n) == IF n = 0 THEN 0 ELSE 1 + BitWidth(n \div 2)

\* sum of f[i] over a finite set of indices
RECURSIVE SumOver(_, _)
SumOver(S, f) ==
    IF S = {} THEN 0
    ELSE LET i == CHOOSE j \in S : TRUE IN f[i] + SumOver(S \ {i}, f)

\* float(n) * 1.2f rounded to binary32 (round to nearest, ties to even),
\* n >= 0.  1.2f is Float12 / 2^23, so the exact product is n * Float12 in
\* units of 2^-23; the result keeps 24 significant bits, i.e. it is a multiple
\* MulSlack(n) of UlpOf(n) units.  The product is never formed as one number:
\* its quotient and remainder by the power of two u come from those of Float12.
\* Float12 is taken in two halves of 12 bits, which keeps every intermediate
\* value below 2^31 for n < 2^19.
ProductHigh(n) == n * (Float12 \div FloatSplit)
ProductLow(n) == n * (Float12 % FloatSplit)
ProductDiv(n, u) ==
    IF u <= FloatSplit
    THEN ProductHigh(n) * (FloatSplit \div u) + ProductLow(n) \div u
    ELSE (ProductHigh(n) + ProductLow(n) \div FloatSplit) \div (u \div FloatSplit)
ProductMod(n, u) ==
    IF u <= FloatSplit
    THEN ProductLow(n) % u
    ELSE ((ProductHigh(n) + ProductLow(n) \div FloatSplit) % (u \div FloatSplit))
            * FloatSplit + (ProductLow(n) % FloatSplit)
UlpOf(n) ==
    IF n = 0 THEN 1
    ELSE LET u == Pow2(BitWidth(n) - 1)
         IN  IF ProductDiv(n, u) < 2 * MantissaUnit THEN u ELSE 2 * u
MulSlack(n) ==
    LET u == UlpOf(n)
        q == ProductDiv(n, u)
        r == ProductMod(n, u)
        up == (2 * r > u) \/ (2 * r = u /\ q % 2 = 1)
    IN  IF up THEN q + 1 ELSE q

\* spaceFree < spaceNeeded * 1.2f, both sides binary32 (line 44): the right
\* side is MulSlack(needed) / unitsPerOne, the left side a whole number
SlackMissing(free, needed) ==
    LET unitsPerOne == MantissaUnit \div UlpOf(needed)
    IN  free < (MulSlack(needed) + unitsPerOne - 1) \div unitsPerOne

\* ------------------------------------------------------------ the registry
NoCoords == [x1 |-> 0, y1 |-> 0, x2 |-> 0, y2 |-> 0]
\* SAtlasEntry(size, name): texCoords default-constructed
SAtlasEntry(w, h) == [size |-> [x |-> w, y |-> h], texCoords |-> NoCoords]

\* IAtlasAllocator::GetMinDim: the smallest side of a registered entry
GetMinDim ==
    IF DOMAIN entries = {} THEN 1
    ELSE LET sides == {Min(entries[n].size.x, entries[n].size.y) :
                            n \in DOMAIN entries}
         IN  CHOOSE m \in sides : \A k \in sides : m <= k

\* GetNumTexLevels without the cap by numLevels
GetNumTexLevelsUncapped == BitWidth(GetMinDim)

\* GetNumTexLevels(): min(bit_width(GetMinDim()), numLevels)
GetNumTexLevels == Min(BitWidth(GetMinDim), numLevels)

\* ------------------------------------------------------------- the sort
\* CompareTex without the comparison of the names (lines 24-25)
CompareTexSizeOnly(n1, n2) ==
    LET s1 == entries[n1].size
        s2 == entries[n2].size
    IN  s1.y > s2.y \/ (s1.y = s2.y /\ s1.x > s2.x)

\* CompareTex(tex1, tex2): large to small, by height, width, then name
CompareTex(n1, n2) ==
    LET s1 == entries[n1].size
        s2 == entries[n2].size
    IN  IF s1.y > s2.y THEN TRUE
        ELSE IF s2.y > s1.y THEN FALSE
        ELSE IF s1.x > s2.x THEN TRUE
        ELSE IF s2.x > s1.x THEN FALSE
        ELSE IF n1 > n2 THEN TRUE
        ELSE FALSE

\* the orders in which the registry (a hash map) may be iterated
IterOrders(S) ==
    {s \in [1..Cardinality(S) -> S] :
        \A i, j \in 1..Cardinality(S) : i # j => s[i] # s[j]}

InsertAt(seq, i, e) == SubSeq(seq, 1, i - 1) \o <<e>> \o SubSeq(seq, i, Len(seq))

\* std::set<std::string>::insert for every key, then iteration in key order
RECURSIVE SortedNames(_)
SortedNames(iter) ==
    IF iter = <<>> THEN <<>>
    ELSE LET rest == SortedNames(SubSeq(iter, 1, Len(iter) - 1))
             n == iter[Len(iter)]
             i == CHOOSE k \in 1..Len(rest) + 1 :
                     /\ k = Len(rest) + 1 \/ rest[k] >= n
                     /\ \A j \in 1..k - 1 : rest[j] < n
         IN  IF i <= Len(rest) /\ rest[i] = n THEN rest
             ELSE InsertAt(rest, i, n)

\* std::stable_sort(first, last, CompareTex): every element is put behind
\* the elements it is not strictly before
RECURSIVE StableSort(_)
StableSort(seq) ==
    IF seq = <<>> THEN <<>>
    ELSE LET rest == StableSort(SubSeq(seq, 1, Len(seq) - 1))
             n == seq[Len(seq)]
             i == CHOOSE k \in 1..Len(rest) + 1 :
                     /\ k = Len(rest) + 1 \/ CompareTex(n, rest[k])
                     /\ \A j \in 1..k - 1 : ~CompareTex(n, rest[j])
         IN  InsertAt(rest, i, n)

\* BuildOrder without the sort: the registry's own iteration order
BuildOrderUnsorted(iter) == iter

\* Allocate, lines 99-111: memtextures from one iteration of the registry
BuildOrder(iter) == StableSort(SortedNames(iter))

\* ------------------------------------------------------------- the rows
\* Row(position, height): width starts at 0
Row(position, height) == [position |-> position, height |-> height, width |-> 0]

\* the loop of FindRow (lines 155-168) from row i on; bestRatio is kept as
\* the numerator of a fraction over glyphHeight (both ratios of a comparison
\* have the divisor glyphHeight); bestRow = 0 is nullptr
RECURSIVE FindRowFrom(_, _, _, _, _, _)
FindRowFrom(i, bestWidth, bestRatio, bestRow, glyphWidth, glyphHeight) ==
    IF i > Len(imageRows) THEN bestRow
    ELSE LET row == imageRows[i] IN
         IF glyphWidth > (atlasSize.x - row.width)
         THEN FindRowFrom(i + 1, bestWidth, bestRatio, bestRow,
                          glyphWidth, glyphHeight)
         ELSE IF glyphHeight > row.height
         THEN FindRowFrom(i + 1, bestWidth, bestRatio, bestRow,
                          glyphWidth, glyphHeight)
         ELSE IF (row.height < bestRatio)
                 \/ ((row.height = bestRatio) /\ (row.width < bestWidth))
         THEN FindRowFrom(i + 1, row.width, row.height, i,
                          glyphWidth, glyphHeight)
         ELSE FindRowFrom(i + 1, bestWidth, bestRatio, bestRow,
                          glyphWidth, glyphHeight)

\* FindRow without the width comparison: the first of the lowest rows that fit
BestRowFirstLowest(glyphWidth, glyphHeight) ==
    LET fits == {i \in 1..Len(imageRows) :
                    /\ glyphWidth <= atlasSize.x - imageRows[i].width
                    /\ glyphHeight <= imageRows[i].height
                    /\ imageRows[i].height < BestRatioInit * glyphHeight}
        lowest == {i \in fits :
                    \A j \in fits : imageRows[i].height <= imageRows[j].height}
    IN IF lowest = {} THEN 0
       ELSE CHOOSE i \in lowest : \A j \in lowest : i <= j

\* FindRow up to its call of AddRow: the index of the best row, 0 if none
BestRow(glyphWidth, glyphHeight) ==
    FindRowFrom(1, atlasSize.x, BestRatioInit * glyphHeight, 0,
                glyphWidth, glyphHeight)

\* both axes at their maximum: the estimator's break and AddRow's failure
AtMaxSize == atlasSize.x >= maxsize.x /\ atlasSize.y >= maxsize.y

\* PlaceIn with the padding counted into the rectangle
PlaceInPadded(rows, i, name) ==
    LET row == rows[i]
        size == entries[name].size
    IN  /\ entries' = [entries EXCEPT ![name].texCoords =
                          [x1 |-> row.width,
                           y1 |-> row.position,
                           x2 |-> row.width + size.x + padding,
                           y2 |-> row.position + size.y + padding]]
        /\ imageRows' = [rows EXCEPT ![i].width = row.width + (size.x + padding)]

\* PlaceIn with the row cursor advanced by the width alone
PlaceInNoPadding(rows, i, name) ==
    LET row == rows[i]
        size == entries[name].size
    IN  /\ entries' = [entries EXCEPT ![name].texCoords =
                          [x1 |-> row.width,
                           y1 |-> row.position,
                           x2 |-> row.width + size.x,
                           y2 |-> row.position + size.y]]
        /\ imageRows' = [rows EXCEPT ![i].width = row.width + size.x]

\* Allocate, lines 124-129: curtex gets its rectangle in row i of rows
PlaceIn(rows, i, name) ==
    LET row == rows[i]
        size == entries[name].size
    IN  /\ entries' = [entries EXCEPT ![name].texCoords =
                          [x1 |-> row.width,
                           y1 |-> row.position,
                           x2 |-> row.width + size.x,
                           y2 |-> row.position + size.y]]
        /\ imageRows' = [rows EXCEPT ![i].width = row.width + (size.x + padding)]

\* -------------------------------------------------------------- the machine
NoPrev == [sizes |-> <<>>, coords |-> <<>>, atlasSize |-> [x |-> 0, y |-> 0],
           ret |-> "none"]

\* the state a constructed instance starts in
Fresh ==
    /\ nextRowPos = 0
    /\ imageRows = <<>>
    /\ entries = <<>>
    /\ pc = "idle"
    /\ success = TRUE
    /\ spaceNeeded = 0
    /\ spaceFree = 0
    /\ memtextures = <<>>
    /\ cur = 0
    /\ padding = 1
    /\ wantedRowHeight = 0
    /\ ret = "none"
    /\ passes = 0
    /\ placed = {}
    /\ failed = {}
    /\ everPlaced = {}

Init ==
    /\ maxsize \in [x : MaxSides, y : MaxSides]
    /\ numLevels \in Levels
    /\ initSize \in {[x |-> Min(side, maxsize.x), y |-> Min(side, maxsize.y)] :
                        side \in InitSides}
    /\ atlasSize = initSize
    /\ prev = NoPrev
    /\ Fresh

\* IAtlasAllocator::AddEntry(name, size): adds or replaces a pending entry.
\* The registry is filled before the first pass; the passes after the first
\* one are repeated calls over the same entries.
AddEntry(name, w, h) ==
    /\ pc = "idle"
    /\ passes = 0
    /\ entries' = [n \in DOMAIN entries \cup {name} |->
                      IF n = name THEN SAtlasEntry(w, h) ELSE entries[n]]
    /\ placed' = placed \ {name}
    /\ failed' = failed \ {name}
    /\ everPlaced' = everPlaced \ {name}
    /\ UNCHANGED <<atlasSize, nextRowPos, imageRows, pc, padding, ret, passes,
                   config, passLocals, prev>>

\* AllocateBegin stacking the rows of every pass from the top again
AllocateBeginRestacks ==
    /\ pc = "idle"
    /\ passes < MaxPasses
    /\ LET y == BitCeil(atlasSize.y)
           area == [n \in DOMAIN entries |->
                       entries[n].size.x * entries[n].size.y]
           rest == [i \in DOMAIN imageRows |->
                       imageRows[i].height * (atlasSize.x - imageRows[i].width)]
       IN  /\ atlasSize' = [atlasSize EXCEPT !.y = y]
           /\ spaceNeeded' = SumOver(DOMAIN entries, area)
           /\ spaceFree' = atlasSize.x * (y - nextRowPos)
                              + SumOver(DOMAIN imageRows, rest)
    /\ nextRowPos' = 0
    /\ success' = TRUE
    /\ pc' = "estimate"
    /\ passes' = passes + 1
    /\ placed' = {}
    /\ failed' = {}
    /\ UNCHANGED <<imageRows, entries, memtextures, cur, padding,
                   wantedRowHeight, ret, config, prev,
                   everPlaced>>

\* Allocate, lines 87-97, and EstimateNeededSize up to its loop (lines 34-42)
AllocateBegin ==
    /\ pc = "idle"
    /\ passes < MaxPasses
    /\ LET y == BitCeil(atlasSize.y)
           area == [n \in DOMAIN entries |->
                       entries[n].size.x * entries[n].size.y]
           rest == [i \in DOMAIN imageRows |->
                       imageRows[i].height * (atlasSize.x - imageRows[i].width)]
       IN  /\ atlasSize' = [atlasSize EXCEPT !.y = y]
           /\ spaceNeeded' = SumOver(DOMAIN entries, area)
           /\ spaceFree' = atlasSize.x * (y - nextRowPos)
                              + SumOver(DOMAIN imageRows, rest)
    /\ success' = TRUE
    /\ pc' = "estimate"
    /\ passes' = passes + 1
    /\ placed' = {}
    /\ failed' = {}
    /\ UNCHANGED <<nextRowPos, imageRows, entries, memtextures, cur, padding,
                   wantedRowHeight, ret, config, prev,
                   everPlaced>>

\* one iteration of the estimator's loop that does not break (lines 44-56)
EstimateGrow ==
    /\ pc = "estimate"
    /\ SlackMissing(spaceFree, spaceNeeded)
    /\ ~AtMaxSize
    /\ LET growX == (atlasSize.x * 2) <= maxsize.x
           free1 == IF growX THEN spaceFree + atlasSize.x * atlasSize.y
                    ELSE spaceFree
           x1 == IF growX THEN Min(maxsize.x, atlasSize.x * 2) ELSE atlasSize.x
           growY == (atlasSize.y * 2) <= maxsize.y
           free2 == IF growY THEN free1 + x1 * atlasSize.y ELSE free1
           y2 == IF growY THEN Min(maxsize.y, atlasSize.y * 2) ELSE atlasSize.y
       IN  /\ atlasSize' = [x |-> x1, y |-> y2]
           /\ spaceFree' = free2
    /\ UNCHANGED <<nextRowPos, imageRows, entries, pc, success, spaceNeeded,
                   memtextures, cur, padding, wantedRowHeight, ret, passes,
                   placed, failed, config, prev,
                   everPlaced>>

\* the estimator's loop ends (lines 44-46); Allocate sorts the entries and
\* computes the padding (lines 99-113)
EstimateDone ==
    /\ pc = "estimate"
    /\ ~SlackMissing(spaceFree, spaceNeeded) \/ AtMaxSize
    /\ \E iter \in IterOrders(DOMAIN entries) :
          memtextures' = BuildOrder(iter)
    /\ padding' = Pow2(GetNumTexLevels)
    /\ cur' = 1
    /\ pc' = "place"
    /\ UNCHANGED <<atlasSize, nextRowPos, imageRows, entries, success,
                   spaceNeeded, spaceFree, wantedRowHeight, ret, passes,
                   placed, failed, config, prev,
                   everPlaced>>

\* the size FindRow is asked for (line 117)
GlyphWidth(name) == entries[name].size.x + padding
GlyphHeight(name) == entries[name].size.y + padding

\* one iteration of Allocate's loop in which FindRow finds an existing row
\* (lines 116-130, 150-173)
PlaceInRow ==
    /\ pc = "place"
    /\ cur <= Len(memtextures)
    /\ LET name == memtextures[cur]
           best == BestRow(GlyphWidth(name), GlyphHeight(name))
       IN  /\ best # 0
           /\ PlaceIn(imageRows, best, name)
           /\ placed' = placed \cup {name}
           /\ everPlaced' = everPlaced \cup {name}
    /\ cur' = cur + 1
    /\ UNCHANGED <<atlasSize, nextRowPos, pc, success, spaceNeeded, spaceFree,
                   memtextures, padding, wantedRowHeight, ret, passes, failed,
                   config, prev>>

\* FindRow finds no row and calls AddRow (lines 170-171, 64)
CallAddRow ==
    /\ pc = "place"
    /\ cur <= Len(memtextures)
    /\ LET name == memtextures[cur]
       IN  /\ BestRow(GlyphWidth(name), GlyphHeight(name)) = 0
           /\ wantedRowHeight' = GlyphHeight(name)
    /\ pc' = "addrow"
    /\ UNCHANGED <<atlasSize, nextRowPos, imageRows, entries, success,
                   spaceNeeded, spaceFree, memtextures, cur, padding, ret,
                   passes, placed, failed, config, prev,
                   everPlaced>>

\* AddRow's loop condition (line 66)
RowTooHigh == atlasSize.y < (nextRowPos + wantedRowHeight)

\* AddRow's resize (lines 73-74)
Resized ==
    [x |-> Min(maxsize.x, atlasSize.x * 2), y |-> Min(maxsize.y, atlasSize.y * 2)]

\* AddRowGivesUp with one axis at its maximum being enough
AddRowGivesUpEither == atlasSize.x >= maxsize.x \/ atlasSize.y >= maxsize.y

\* AddRow gives up (line 67)
AddRowGivesUp == atlasSize.x >= maxsize.x /\ atlasSize.y >= maxsize.y

\* one iteration of AddRow's loop that resizes (lines 66-75)
AddRowGrow ==
    /\ pc = "addrow"
    /\ RowTooHigh
    /\ ~AddRowGivesUp
    /\ atlasSize' = Resized
    /\ UNCHANGED <<nextRowPos, imageRows, entries, pc, success, spaceNeeded,
                   spaceFree, memtextures, cur, padding, wantedRowHeight, ret,
                   passes, placed, failed, config, prev,
                   everPlaced>>

\* AddRowFail with Allocate leaving its loop at the first failure
AddRowFailBreak ==
    /\ pc = "addrow"
    /\ RowTooHigh
    /\ AddRowGivesUp
    /\ success' = FALSE
    /\ failed' = failed \cup {memtextures[cur]}
    /\ cur' = Len(memtextures) + 1
    /\ pc' = "place"
    /\ wantedRowHeight' = 0
    /\ UNCHANGED <<atlasSize, nextRowPos, imageRows, entries, spaceNeeded,
                   spaceFree, memtextures, padding, ret, passes, placed,
                   config, prev,
                   everPlaced>>

\* AddRowFail with Allocate writing the rectangle of the row that was asked
\* for before it looks at the result
AddRowFailStamps ==
    /\ pc = "addrow"
    /\ RowTooHigh
    /\ AddRowGivesUp
    /\ success' = FALSE
    /\ failed' = failed \cup {memtextures[cur]}
    /\ entries' = [entries EXCEPT ![memtextures[cur]].texCoords =
                      [x1 |-> 0,
                       y1 |-> nextRowPos,
                       x2 |-> entries[memtextures[cur]].size.x,
                       y2 |-> nextRowPos + entries[memtextures[cur]].size.y]]
    /\ cur' = cur + 1
    /\ pc' = "place"
    /\ wantedRowHeight' = 0
    /\ UNCHANGED <<atlasSize, nextRowPos, imageRows, spaceNeeded, spaceFree,
                   memtextures, padding, ret, passes, placed, config, prev,
                   everPlaced>>

\* AddRow returns nullptr (lines 67-69), so does FindRow, and Allocate goes
\* on with the next texture (lines 119-122)
AddRowFail ==
    /\ pc = "addrow"
    /\ RowTooHigh
    /\ AddRowGivesUp
    /\ success' = FALSE
    /\ failed' = failed \cup {memtextures[cur]}
    /\ cur' = cur + 1
    /\ pc' = "place"
    /\ wantedRowHeight' = 0
    /\ UNCHANGED <<atlasSize, nextRowPos, imageRows, entries, spaceNeeded,
                   spaceFree, memtextures, padding, ret, passes, placed,
                   config, prev,
                   everPlaced>>

\* AddRow putting every new row at the top of the surface
WithNewRowAtTop == Append(imageRows, Row(0, wantedRowHeight))
\* the rows after AddRow's emplace_back (line 77)
WithNewRow == Append(imageRows, Row(nextRowPos, wantedRowHeight))

\* NextRowPosAfter with the advance written as an assignment
NextRowPosAssigned == wantedRowHeight

\* nextRowPos after AddRow's advance (line 78)
NextRowPosAfter == nextRowPos + wantedRowHeight

\* AddRow appends the row (lines 77-80) and Allocate places curtex in it
\* (lines 124-129)
AddRowDone ==
    /\ pc = "addrow"
    /\ ~RowTooHigh
    /\ PlaceIn(WithNewRow, Len(imageRows) + 1, memtextures[cur])
    /\ nextRowPos' = NextRowPosAfter
    /\ placed' = placed \cup {memtextures[cur]}
    /\ everPlaced' = everPlaced \cup {memtextures[cur]}
    /\ cur' = cur + 1
    /\ pc' = "place"
    /\ wantedRowHeight' = 0
    /\ UNCHANGED <<atlasSize, success, spaceNeeded, spaceFree, memtextures,
                   padding, ret, passes, failed, config, prev>>

\* Allocate's loop is over: the height is clamped and success returned
\* (lines 132-134)
AllocateEnd ==
    /\ pc = "place"
    /\ cur > Len(memtextures)
    /\ atlasSize' = [atlasSize EXCEPT !.y = nextRowPos]
    /\ ret' = IF success THEN "true" ELSE "false"
    /\ pc' = "idle"
    /\ success' = TRUE
    /\ spaceNeeded' = 0
    /\ spaceFree' = 0
    /\ memtextures' = <<>>
    /\ cur' = 0
    /\ UNCHANGED <<nextRowPos, imageRows, entries, padding, wantedRowHeight,
                   passes, placed, failed, config, prev,
                   everPlaced>>

Next ==
    \/ \E name \in Names, w \in 1..MaxDim, h \in 1..MaxDim : AddEntry(name, w, h)
    \/ AllocateBegin
    \/ EstimateGrow
    \/ EstimateDone
    \/ PlaceInRow
    \/ CallAddRow
    \/ AddRowGrow
    \/ AddRowFail
    \/ AddRowDone
    \/ AllocateEnd

Spec == Init /\ [][Next]_vars

\* the steps of a running Allocate(): once called, it runs on
PassStep ==
    \/ EstimateGrow
    \/ EstimateDone
    \/ PlaceInRow
    \/ CallAddRow
    \/ AddRowGrow
    \/ AddRowFail
    \/ AddRowDone
    \/ AllocateEnd

\* ------------------------------------------------------------ the reload
\* what a pass leaves: the registered sizes, the rectangles, the surface size
\* and the return value
Outcome ==
    [sizes |-> [n \in DOMAIN entries |-> entries[n].size],
     coords |-> [n \in DOMAIN entries |-> entries[n].texCoords],
     atlasSize |-> atlasSize,
     ret |-> ret]

\* the latest pass processed exactly the entries now registered
PassIsCurrent == pc = "idle" /\ ret # "none" /\ placed \cup failed = DOMAIN entries

\* the atlas is rebuilt: a new instance with the same configuration replaces
\* the one whose single pass is over (CRowAtlasAlloc's constructor)
Reload ==
    /\ PassIsCurrent
    /\ passes = 1
    /\ prev = NoPrev
    /\ prev' = Outcome
    /\ atlasSize' = initSize
    /\ nextRowPos' = 0
    /\ imageRows' = <<>>
    /\ entries' = <<>>
    /\ padding' = 1
    /\ ret' = "none"
    /\ passes' = 0
    /\ placed' = {}
    /\ failed' = {}
    /\ everPlaced' = {}
    /\ UNCHANGED <<pc, passLocals, config>>

\* the reload scenario: one pass per instance, and the second instance is
\* given entries of the first one only
NextReload ==
    \/ /\ Next
       /\ passes' <= 1
       /\ prev # NoPrev =>
             \A n \in DOMAIN entries' :
                /\ n \in DOMAIN prev.sizes
                /\ entries'[n].size = prev.sizes[n]
    \/ Reload

\* the reload is checked for the square maximum sizes
InitReload == Init /\ maxsize.x = maxsize.y

SpecReload == InitReload /\ [][NextReload]_vars

\* ------------------------------------------------ the 64x64 test scenario
\* The allocator of spec.md section 8: initial surface 64x64, at most one mip
\* level (padding 2), and the entry sizes of A, B and C, registered under any
\* names.  The maximum is 256x256 as in the scenario, or 64x64, where the
\* surface cannot grow.
ScenarioSide == 64
ScenarioMax == 256
ScenarioSizes == {[x |-> 50, y |-> 20], [x |-> 40, y |-> 20], [x |-> 60, y |-> 10]}

InitScenario ==
    /\ maxsize \in {[x |-> side, y |-> side] : side \in {ScenarioSide, ScenarioMax}}
    /\ numLevels = 1
    /\ initSize = [x |-> ScenarioSide, y |-> ScenarioSide]
    /\ atlasSize = initSize
    /\ prev = NoPrev
    /\ Fresh

NextScenario ==
    \/ \E name \in Names, size \in ScenarioSizes : AddEntry(name, size.x, size.y)
    \/ AllocateBegin
    \/ EstimateGrow
    \/ EstimateDone
    \/ PlaceInRow
    \/ CallAddRow
    \/ AddRowGrow
    \/ AddRowFail
    \/ AddRowDone
    \/ AllocateEnd

SpecScenario == InitScenario /\ [][NextScenario]_vars

\* ------------------------------------------------------- a tall surface
\* An allocator whose surface may become 32768 high, without mip levels
\* (padding 1), over an entry 20000 high and entries 1 high: the row of the
\* high entry is more than BestRatioInit times as high as the low glyphs.
TallSizes == {[x |-> 1, y |-> 20000], [x |-> 1, y |-> 1], [x |-> 2, y |-> 1]}

InitTall ==
    /\ maxsize = [x |-> 4, y |-> 32768]
    /\ numLevels = 0
    /\ initSize = [x |-> 1, y |-> 1]
    /\ atlasSize = initSize
    /\ prev = NoPrev
    /\ Fresh

NextTall ==
    \/ \E name \in Names, size \in TallSizes : AddEntry(name, size.x, size.y)
    \/ AllocateBegin
    \/ EstimateGrow
    \/ EstimateDone
    \/ PlaceInRow
    \/ CallAddRow
    \/ AddRowGrow
    \/ AddRowFail
    \/ AddRowDone
    \/ AllocateEnd

SpecTall == InitTall /\ [][NextTall]_vars

\* ------------------------------------------------------------- properties
\* Allocate() has returned at least once and is not running
AfterAllocate == pc = "idle" /\ ret # "none"

\* the padded rectangles of entries a and b, half-open on both axes, have no
\* point in common
PaddedDisjoint(a, b) ==
    LET ca == entries[a].texCoords
        cb == entries[b].texCoords
        sa == entries[a].size
        sb == entries[b].size
    IN  \/ ca.x1 + sa.x + padding <= cb.x1
        \/ cb.x1 + sb.x + padding <= ca.x1
        \/ ca.y1 + sa.y + padding <= cb.y1
        \/ cb.y1 + sb.y + padding <= ca.y1

\* C1: after Allocate() returns, the padded rectangles
\* [x1, x1+width+padding) x [y1, y1+height+padding) of any two distinct
\* entries placed in that pass do not intersect.
C1_NoOverlap ==
    AfterAllocate =>
        \A a, b \in placed : a # b => PaddedDisjoint(a, b)

\* C1 witness: a pass has placed three entries, two of them side by side in
\* one row and the third in another row.
C1_Witness ==
    /\ AfterAllocate
    /\ \E a, b, c \in placed :
          /\ entries[a].texCoords.y1 = entries[b].texCoords.y1
          /\ entries[a].texCoords.x1 < entries[b].texCoords.x1
          /\ entries[c].texCoords.y1 # entries[a].texCoords.y1

\* C2: after Allocate() returns, the rectangle of every entry placed in that
\* pass lies within the final surface: 0 <= x1, x2 <= width, 0 <= y1,
\* y2 <= height.
C2_InsideSurface ==
    AfterAllocate =>
        \A n \in placed :
            LET c == entries[n].texCoords
            IN  /\ 0 <= c.x1 /\ c.x2 <= atlasSize.x
                /\ 0 <= c.y1 /\ c.y2 <= atlasSize.y

\* C3: in every reachable state the surface is no larger than the configured
\* maximum on either axis.
C3_WithinMax ==
    atlasSize.x <= maxsize.x /\ atlasSize.y <= maxsize.y

\* C4: Allocate() returns false exactly if an entry failed to obtain a row in
\* that pass, every registered entry was attempted (it was placed or it
\* failed), and an entry that is attempted after a failure fails only if no row
\* can be found for it and none can be created.
C4_BestEffort ==
    [][/\ (pc = "place" /\ pc' = "idle") =>
            /\ (ret' = "false") <=> (failed' # {})
            /\ placed' \cup failed' = DOMAIN entries'
            /\ placed' \cap failed' = {}
       /\ (failed # {}) =>
            \A n \in failed' \ failed :
                /\ BestRow(GlyphWidth(n), GlyphHeight(n)) = 0
                /\ RowTooHigh
                /\ AtMaxSize]_vars

\* C4 witness: Allocate() returned false, and an entry that was processed
\* after a failed one was placed.
C4_Witness ==
    /\ AfterAllocate
    /\ ret = "false"
    /\ \E f \in failed, n \in placed : CompareTex(f, n)

\* C5: every Allocate() pass terminates: a running pass can always take a
\* step that changes its state.  (The steps of a pass are deterministic but
\* for the iteration order of the registry, which only the sort reads: an
\* iteration of a loop that leaves the state as it was is repeated for ever.)
C5_Terminates == (pc # "idle") => ENABLED <<PassStep>>_vars

\* C6: a pass over the entry set of an earlier instance with the same
\* configuration yields the same rectangles, the same surface size and the
\* same return value, whatever the order the registry is iterated in.
C6_ReloadStable ==
    (PassIsCurrent /\ prev # NoPrev /\ Outcome.sizes = prev.sizes)
        => Outcome = prev

\* C6 witness: the second instance has allocated the three entries of the
\* first one, two of which have the same size, and has placed one.
C6_Witness ==
    /\ PassIsCurrent
    /\ prev # NoPrev
    /\ Outcome.sizes = prev.sizes
    /\ DOMAIN entries = Names
    /\ \E a, b \in Names : a # b /\ entries[a].size = entries[b].size
    /\ \E a, b \in Names : entries[a].size # entries[b].size
    /\ placed # {}

\* the heights of all rows created so far
RowHeights ==
    SumOver(DOMAIN imageRows, [i \in DOMAIN imageRows |-> imageRows[i].height])

\* C7: the next free row position is always the sum of the heights of the rows
\* created so far, and after every Allocate() the surface height is that value.
C7_HeightTight ==
    /\ nextRowPos = RowHeights
    /\ AfterAllocate => atlasSize.y = nextRowPos

\* C7 witness: a second pass on the same instance has returned, there are at
\* least two rows, and the surface height is not a power of two.
C7_Witness ==
    /\ AfterAllocate
    /\ passes >= 2
    /\ Len(imageRows) >= 2
    /\ atlasSize.y # BitCeil(atlasSize.y)
    /\ atlasSize.y <= maxsize.y

\* a rectangle without area
ZeroArea(c) == c.x1 = c.x2 \/ c.y1 = c.y2

\* the padded area of the registered entries
PaddedArea ==
    SumOver(DOMAIN entries,
            [n \in DOMAIN entries |->
                (entries[n].size.x + padding) * (entries[n].size.y + padding)])

\* C8: if the padded area of the entries of a pass exceeds
\* 1.2 * maxWidth * maxHeight, Allocate() returns false and an entry has a
\* rectangle without area.
C8_GracefulOverflow ==
    (PassIsCurrent /\ 5 * PaddedArea > 6 * maxsize.x * maxsize.y) =>
        /\ ret = "false"
        /\ \E n \in DOMAIN entries : ZeroArea(entries[n].texCoords)

\* C9 as stated: after any pass, first or repeated, every entry that failed
\* in it has a rectangle without area.
C9_FailedAreEmpty ==
    AfterAllocate => \A n \in failed : ZeroArea(entries[n].texCoords)

\* C9 amended: after any pass, first or repeated, an entry has a rectangle
\* without area exactly if no pass has placed it since it was registered; so
\* every entry that failed in the pass and was not placed by an earlier one
\* has the empty rectangle.
C9_NeverPlacedAreEmpty ==
    AfterAllocate =>
        \A n \in DOMAIN entries :
            ZeroArea(entries[n].texCoords) <=> (n \notin everPlaced)

\* C9 witness: a repeated pass has returned; one entry failed in it and has
\* never been placed, another one failed in it and keeps the rectangle of an
\* earlier pass, and a third one was placed in it.
C9_Witness ==
    /\ AfterAllocate
    /\ passes >= 2
    /\ failed \ everPlaced # {}
    /\ failed \cap everPlaced # {}
    /\ placed # {}

\* C10: a row request fails only in a state where both axes are at their
\* maximum and the surface height is below nextRowPos plus the requested
\* height; the failed request leaves the rows and nextRowPos as they were, and
\* Allocate() returns false only after a request has failed.
C10_FailsOnlyAtCapacity ==
    [][/\ (failed' \ failed # {}) =>
            /\ atlasSize.x >= maxsize.x
            /\ atlasSize.y >= maxsize.y
            /\ atlasSize.y < nextRowPos + wantedRowHeight
            /\ wantedRowHeight = GlyphHeight(memtextures[cur])
            /\ imageRows' = imageRows
            /\ nextRowPos' = nextRowPos
       /\ (pc = "place" /\ pc' = "idle" /\ ret' = "false") => failed # {}]_vars

\* C10 witness: inside a pass, a row request has just failed while another
\* entry has its row.
C10_Witness ==
    /\ pc = "place"
    /\ failed # {}
    /\ placed # {}
    /\ ~success

\* n is a power of two
IsPowerOfTwo(n) == \E k \in 0..BitWidth(n) : Pow2(k) = n

\* C11: the step that starts a pass leaves a surface height that is a power
\* of two and not below the height the previous pass left (0 and tight heights
\* that are no power of two included), and the height is a power of two
\* throughout the estimator, up to the beginning of the placement loop.
C11_PowerOfTwoHeight ==
    [][/\ (pc' = "estimate" \/ (pc' = "place" /\ cur' = 1)) =>
            IsPowerOfTwo(atlasSize'.y)
       /\ (pc = "idle" /\ pc' = "estimate") => atlasSize'.y >= atlasSize.y]_vars

\* C11 witness: a repeated pass has started from a height that is no power of
\* two, and the estimator has run.
C11_Witness ==
    /\ pc = "place"
    /\ cur = 1
    /\ passes >= 2
    /\ ~IsPowerOfTwo(nextRowPos)
    /\ nextRowPos > 0
    /\ atlasSize.y > nextRowPos

\* the rows FindRow may choose for a glyph: wide and high enough (lines 157-159)
Eligible(glyphWidth, glyphHeight) ==
    {i \in 1..Len(imageRows) :
        /\ glyphWidth <= atlasSize.x - imageRows[i].width
        /\ glyphHeight <= imageRows[i].height}

\* the placement loop is about to call FindRow for memtextures[cur]
AtFindRow == pc = "place" /\ cur <= Len(memtextures)

ScenarioEntries ==
    /\ DOMAIN entries = {1, 2, 3}
    /\ entries[1].size = [x |-> 50, y |-> 20]
    /\ entries[2].size = [x |-> 40, y |-> 20]
    /\ entries[3].size = [x |-> 60, y |-> 10]

\* the first pass of a fresh 64x64 allocator with maximum 256x256 over A, B, C
ScenarioPass ==
    /\ maxsize = [x |-> ScenarioMax, y |-> ScenarioMax]
    /\ passes = 1
    /\ ScenarioEntries

\* C13: in the scenario, the entries are processed in the order A, B, C with
\* padding 2; B is offered a first row of height 22 at y = 0 with 12 pixels
\* left and no row fits it; the surface stays 64 wide throughout; and the pass
\* returns true with A at x in [0, 50], y in [0, 20] in the row at 0, B in a
\* row at y = 22 and C placed as well.
C13_Scenario ==
    ScenarioPass =>
        /\ atlasSize.x = ScenarioSide
        /\ pc \in {"place", "addrow"} =>
              /\ memtextures = <<1, 2, 3>>
              /\ padding = 2
        /\ (pc = "place" /\ cur = 2) =>
              /\ imageRows = <<[position |-> 0, height |-> 22, width |-> 52]>>
              /\ atlasSize.x - imageRows[1].width = 12
              /\ BestRow(GlyphWidth(2), GlyphHeight(2)) = 0
        /\ AfterAllocate =>
              /\ ret = "true"
              /\ entries[1].texCoords = [x1 |-> 0, y1 |-> 0, x2 |-> 50, y2 |-> 20]
              /\ entries[2].texCoords = [x1 |-> 0, y1 |-> 22, x2 |-> 40, y2 |-> 42]
              /\ ~ZeroArea(entries[3].texCoords)
              /\ Len(imageRows) >= 2
              /\ imageRows[1].position = 0 /\ imageRows[1].height = 22
              /\ imageRows[2].position = 22

\* C13 witness: the scenario's pass has returned.
C13_Witness ==
    /\ ScenarioPass
    /\ AfterAllocate
    /\ placed = {1, 2, 3}

\* the free space of a surface of the given size: the area below the rows and
\* what is left of each row
FreeSpace(size, rows, rowPos) ==
    size.x * (size.y - rowPos)
        + SumOver(DOMAIN rows, [i \in DOMAIN rows |->
                                    rows[i].height * (size.x - rows[i].width)])

\* an axis below its maximum doubles, clamped to the maximum
GrownSide(side, max) == IF side < max THEN Min(max, 2 * side) ELSE side

\* C14: every iteration of the estimator's loop that goes on (free space
\* below 1.2 times the needed space, surface below the maximum on an axis)
\* doubles each axis below its maximum, clamped to the maximum, and leaves the
\* running free value equal to the free space of the new dimensions.
C14_EstimatorGrowth ==
    [][(pc = "estimate" /\ pc' = "estimate") =>
          /\ atlasSize'.x = GrownSide(atlasSize.x, maxsize.x)
          /\ atlasSize'.y = GrownSide(atlasSize.y, maxsize.y)
          /\ spaceFree' = FreeSpace(atlasSize', imageRows', nextRowPos')]_vars

\* C15: whenever FindRow is called and some existing row is eligible (wide
\* and high enough for the glyph), it returns an eligible row, and none of the
\* eligible rows has a smaller ratio of row height to glyph height (a lower
\* height, the glyph height being one value); so a row is only created when
\* no existing row is eligible.
C15_BestFit ==
    AtFindRow =>
        LET gw == GlyphWidth(memtextures[cur])
            gh == GlyphHeight(memtextures[cur])
            best == BestRow(gw, gh)
        IN Eligible(gw, gh) # {} =>
             /\ best \in Eligible(gw, gh)
             /\ \A j \in Eligible(gw, gh) :
                    imageRows[best].height <= imageRows[j].height

\* each row begins where the rows before it end
RowsStacked(rows) ==
    \A i \in DOMAIN rows :
        rows[i].position =
            SumOver(1..(i - 1), [j \in 1..(i - 1) |-> rows[j].height])

\* the vertical extents of the rows are not empty and pairwise disjoint
RowsDisjoint(rows) ==
    /\ \A i \in DOMAIN rows : rows[i].height > 0
    /\ \A i, j \in DOMAIN rows :
          i < j => rows[i].position + rows[i].height <= rows[j].position

\* C16: every step leaves the rows stacked (each at the sum of the heights of
\* the rows before it) with disjoint vertical extents; it removes no row and
\* changes no row's position or height; and a step that adds a row appends
\* one, at the next row position of before, of the requested height and with
\* used width 0, so that the entry placed in it starts at x = 0.
C16_RowsStacked ==
    [][/\ RowsStacked(imageRows')
       /\ RowsDisjoint(imageRows')
       /\ Len(imageRows') >= Len(imageRows)
       /\ \A i \in DOMAIN imageRows :
             /\ imageRows'[i].position = imageRows[i].position
             /\ imageRows'[i].height = imageRows[i].height
       /\ Len(imageRows') > Len(imageRows) =>
             LET new == imageRows'[Len(imageRows')]
                 name == memtextures[cur]
             IN /\ Len(imageRows') = Len(imageRows) + 1
                /\ new.position = nextRowPos
                /\ new.height = GlyphHeight(name)
                /\ new.height = wantedRowHeight
                /\ entries'[name].texCoords.x1 = 0
                /\ new.width = GlyphWidth(name)]_vars

\* C16 witness: a repeated pass has added rows below the rows of the first
\* pass.
C16_Witness ==
    /\ AfterAllocate
    /\ passes = 2
    /\ Len(imageRows) >= 4

\* the entries whose rectangle lies in row i
InRow(i) ==
    {n \in DOMAIN entries :
        /\ ~ZeroArea(entries[n].texCoords)
        /\ entries[n].texCoords.y1 = imageRows[i].position}

\* no row is used beyond the width of the surface
RowsWithinWidth == \A i \in DOMAIN imageRows : imageRows[i].width <= atlasSize.x

\* the padded slots [x1, x2 + padding) of the entries of a row lie within the
\* used width of the row and are pairwise disjoint
SlotsDisjoint ==
    \A i \in DOMAIN imageRows :
        /\ \A n \in InRow(i) :
              /\ 0 <= entries[n].texCoords.x1
              /\ entries[n].texCoords.x2 + padding <= imageRows[i].width
        /\ \A a, b \in InRow(i) :
              a # b => \/ entries[a].texCoords.x2 + padding <= entries[b].texCoords.x1
                       \/ entries[b].texCoords.x2 + padding <= entries[a].texCoords.x1

\* in the first pass the slots of a row fill its used width from x = 0
\* without gaps: being disjoint, their widths add up to the used width
SlotsContiguous ==
    passes = 1 =>
        \A i \in DOMAIN imageRows :
            imageRows[i].width =
                SumOver(InRow(i), [n \in InRow(i) |->
                    entries[n].texCoords.x2 + padding - entries[n].texCoords.x1])

\* C17: in every state, every row's used width is at most the width of the
\* surface, and the entries of a row occupy disjoint padded slots, which run
\* from x = 0 to the used width without gaps, rows just created included.
C17_RowWidthBudget ==
    (pc \in {"place", "addrow"} \/ AfterAllocate) =>
        /\ RowsWithinWidth
        /\ SlotsDisjoint
        /\ SlotsContiguous

\* the order of the claim: the key (height, width, name) of a is
\* lexicographically above that of b
OfferedBefore(es, a, b) ==
    \/ es[a].size.y > es[b].size.y
    \/ es[a].size.y = es[b].size.y /\ es[a].size.x > es[b].size.x
    \/ es[a].size.y = es[b].size.y /\ es[a].size.x = es[b].size.x /\ a > b

\* a pass is in its placement loop
Placing(at) == at \in {"place", "addrow"}

\* C18: throughout the placement loop, the list the loop walks holds every
\* registered entry once, in strictly descending order of height, then width,
\* then name, whatever order the registry was filled and iterated in; the
\* loop starts at its first element, offers the elements to FindRow one after
\* the other and leaves the list as it is.
C18_ProcessingOrder ==
    [][Placing(pc') =>
          /\ Len(memtextures') = Cardinality(DOMAIN entries')
          /\ {memtextures'[i] : i \in DOMAIN memtextures'} = DOMAIN entries'
          /\ \A i, j \in DOMAIN memtextures' :
                i < j => OfferedBefore(entries', memtextures'[i], memtextures'[j])
          /\ ~Placing(pc) => cur' = 1
          /\ Placing(pc) =>
                /\ memtextures' = memtextures
                /\ cur' \in {cur, cur + 1}
                /\ cur' = cur + 1 <=>
                      (memtextures[cur] \in (placed' \cup failed') \ (placed \cup failed))]_vars

\* C18 witness: a pass over three entries, two of them of one size and so in
\* the order of their names, has offered the first two.
C18_Witness ==
    /\ pc = "place"
    /\ Len(memtextures) = 3
    /\ cur = 3
    /\ entries[memtextures[1]].size = entries[memtextures[2]].size
    /\ memtextures[1] > memtextures[2]
    /\ entries[memtextures[3]].size.y < entries[memtextures[2]].size.y

\* the used width of row i of rows, 0 for a row that is not there yet
UsedWidth(rows, i) == IF i \in DOMAIN rows THEN rows[i].width ELSE 0

\* C19: a step that places an entry sets its rectangle to
\* (u, position, u + width, position + height), u being the used width the
\* row had before the step and position the row's position; it advances that
\* row's used width by exactly width + padding; the rectangle is as wide and
\* as high as the entry and lies inside the row's vertical band; no other row
\* and no other entry changes.
C19_PlacementRecord ==
    [][(placed' \ placed # {}) =>
          LET name == memtextures[cur]
              size == entries[name].size
              c == entries'[name].texCoords
          IN /\ placed' = placed \cup {name}
             /\ \A n \in DOMAIN entries \ {name} : entries'[n] = entries[n]
             /\ entries'[name].size = size
             /\ \E i \in DOMAIN imageRows' :
                   LET u == UsedWidth(imageRows, i)
                       row == imageRows'[i]
                   IN /\ c = [x1 |-> u, y1 |-> row.position,
                              x2 |-> u + size.x, y2 |-> row.position + size.y]
                      /\ row.width = u + size.x + padding
                      /\ c.x2 - c.x1 = size.x
                      /\ c.y2 - c.y1 = size.y
                      /\ row.position <= c.y1
                      /\ c.y2 <= row.position + row.height
                      /\ \A j \in DOMAIN imageRows \ {i} :
                            imageRows'[j] = imageRows[j]]_vars

\* C19 witness: an entry has been placed behind another one in an existing
\* row that is higher than the entry's padded height.
C19_Witness ==
    \E n \in placed :
        \E i \in DOMAIN imageRows :
            /\ entries[n].texCoords.y1 = imageRows[i].position
            /\ entries[n].texCoords.x1 > 0
            /\ entries[n].texCoords.x2 + padding = imageRows[i].width
            /\ entries[n].size.y + padding < imageRows[i].height

\* C20: in every state, after any number of passes over the same registry,
\* the padded rectangles stored in any two distinct entries that hold one do
\* not intersect, whether the latest pass wrote them or an entry that failed
\* in it has kept the rectangle of an earlier pass.
C20_NoOverlapAcrossPasses ==
    \A a, b \in DOMAIN entries :
        (/\ a # b
         /\ ~ZeroArea(entries[a].texCoords)
         /\ ~ZeroArea(entries[b].texCoords)) => PaddedDisjoint(a, b)

\* C20 witness: the second pass has returned; it failed for an entry that
\* still holds the rectangle of the first pass and placed another entry.
C20_Witness ==
    /\ AfterAllocate
    /\ passes = 2
    /\ \E a \in failed \cap everPlaced : ~ZeroArea(entries[a].texCoords)
    /\ placed # {}

====
